---- MODULE Spec2Model ----
(***************************************************************************)
(* File Browser (main.go): the path-confinement check, the directory       *)
(* listing (filter + sort), the breadcrumb builder and the download        *)
(* handler, modelled as a state machine over requests.                     *)
(*                                                                         *)
(* A Go string is modelled as a sequence of one-character strings, so that *)
(* prefixes, separators, case folding and escaping are computed character  *)
(* by character as the code computes them.                                 *)
(***************************************************************************)
EXTENDS Integers, Sequences, FiniteSets, TLC

VARIABLES rootDir, fs, req, resp, ops

vars == <<rootDir, fs, req, resp, ops>>

(***************************************************************************)
(* Bounds of the model.                                                    *)
(***************************************************************************)
\* longest user-supplied `path` parameter (characters)
MaxPathLen == 7
\* most children of the listed directory in the listing specification
MaxEntries == 3
\* longest relative path handed to crumbsFor in the breadcrumb specification
MaxRelLen == 5

(***************************************************************************)
(* Strings.                                                                *)
(***************************************************************************)
\* The characters of the model in ASCII order (byte order of Go's string <).
Alphabet == <<" ", "%", "+", ".", "/", "2", "3", "5", "=", "?", "A", "B", "D", "F",
              "M", "S", "a", "b", "c", "d", "e", "f", "h", "i", "m", "n", "o", "p",
              "s", "t", "z">>

Code(c) == CHOOSE i \in 1..Len(Alphabet) : Alphabet[i] = c

\* os.PathSeparator on the build target (linux, see the Dockerfile)
Separator == "/"

Sep == <<Separator>>

\* Go's s < t on strings: lexicographic on bytes
RECURSIVE StrLess(_, _)
StrLess(s, t) ==
  IF t = <<>> THEN FALSE
  ELSE IF s = <<>> THEN TRUE
  ELSE IF s[1] # t[1] THEN Code(s[1]) < Code(t[1])
  ELSE StrLess(Tail(s), Tail(t))

\* strings.HasPrefix
HasPrefix(s, prefix) ==
  Len(s) >= Len(prefix) /\ SubSeq(s, 1, Len(prefix)) = prefix

\* strings.TrimPrefix
TrimPrefix(s, prefix) ==
  IF HasPrefix(s, prefix) THEN SubSeq(s, Len(prefix) + 1, Len(s)) ELSE s

LowerChar(c) ==
  CASE c = "A" -> "a"
    [] c = "B" -> "b"
    [] c = "D" -> "d"
    [] c = "F" -> "f"
    [] c = "M" -> "m"
    [] c = "S" -> "s"
    [] OTHER -> c

\* strings.ToLower
ToLower(s) == [i \in 1..Len(s) |-> LowerChar(s[i])]

\* strings.Contains
Contains(s, substr) ==
  \E i \in 0..(Len(s) - Len(substr)) : SubSeq(s, i + 1, i + Len(substr)) = substr

\* strings.TrimSpace
RECURSIVE TrimSpace(_)
TrimSpace(s) ==
  IF s = <<>> THEN s
  ELSE IF s[1] = " " THEN TrimSpace(Tail(s))
  ELSE IF s[Len(s)] = " " THEN TrimSpace(SubSeq(s, 1, Len(s) - 1))
  ELSE s

\* strings.Split(s, "/"): the segments between separators, empty ones included
RECURSIVE Split(_)
Split(s) ==
  IF \A i \in 1..Len(s) : s[i] # "/" THEN <<s>>
  ELSE LET k == CHOOSE i \in 1..Len(s) :
                  s[i] = "/" /\ \A j \in 1..(i - 1) : s[j] # "/"
       IN <<SubSeq(s, 1, k - 1)>> \o Split(SubSeq(s, k + 1, Len(s)))

(***************************************************************************)
(* path/filepath (unix).                                                   *)
(***************************************************************************)
\* Clean's backtrack over the last element of the output buffer
RECURSIVE Backtrack(_, _, _)
Backtrack(out, w, dotdot) ==
  IF w > dotdot /\ out[w + 1] # "/" THEN Backtrack(out, w - 1, dotdot)
  ELSE SubSeq(out, 1, w)

\* index just past the path element that starts at r
RECURSIVE ElemEnd(_, _)
ElemEnd(path, r) ==
  IF r <= Len(path) /\ path[r] # "/" THEN ElemEnd(path, r + 1) ELSE r

RECURSIVE CleanLoop(_, _, _, _, _)
CleanLoop(path, r, out, dotdot, rooted) ==
  LET n == Len(path) IN
  IF r > n THEN out
  ELSE IF path[r] = "/" THEN CleanLoop(path, r + 1, out, dotdot, rooted)
  ELSE IF path[r] = "." /\ (r = n \/ path[r + 1] = "/")
    THEN CleanLoop(path, r + 1, out, dotdot, rooted)
  ELSE IF path[r] = "." /\ path[r + 1] = "." /\ (r + 1 = n \/ path[r + 2] = "/")
    THEN IF Len(out) > dotdot
           THEN CleanLoop(path, r + 2, Backtrack(out, Len(out) - 1, dotdot),
                          dotdot, rooted)
         ELSE IF ~rooted
           THEN LET o2 == (IF Len(out) > 0 THEN Append(out, "/") ELSE out)
                            \o <<".", ".">>
                IN CleanLoop(path, r + 2, o2, Len(o2), rooted)
         ELSE CleanLoop(path, r + 2, out, dotdot, rooted)
  ELSE LET o1 == IF (rooted /\ Len(out) # 1) \/ (~rooted /\ Len(out) # 0)
                   THEN Append(out, "/") ELSE out
           e == ElemEnd(path, r)
       IN CleanLoop(path, e, o1 \o SubSeq(path, r, e - 1), dotdot, rooted)

\* filepath.Clean
Clean(path) ==
  IF path = <<>> THEN <<".">>
  ELSE LET rooted == path[1] = "/"
           out == IF rooted THEN CleanLoop(path, 2, <<"/">>, 1, TRUE)
                  ELSE CleanLoop(path, 1, <<>>, 0, FALSE)
       IN IF out = <<>> THEN <<".">> ELSE out

\* Join as if an absolute second element replaced the first (not what Go does)
JoinAbsoluteWins(a, b) ==
  IF b # <<>> /\ b[1] = "/" THEN Clean(b)
  ELSE IF a # <<>> THEN Clean(a \o <<"/">> \o b)
  ELSE IF b # <<>> THEN Clean(b)
  ELSE <<>>

\* filepath.Join of two elements
Join(a, b) ==
  IF a # <<>> THEN Clean(a \o <<"/">> \o b)
  ELSE IF b # <<>> THEN Clean(b)
  ELSE <<>>

\* the working directory of the process
Cwd == <<"/", "a">>

\* filepath.Abs
Abs(path) ==
  IF path # <<>> /\ path[1] = "/" THEN Clean(path) ELSE Join(Cwd, path)

\* filepath.ToSlash
ToSlash(path) == [i \in 1..Len(path) |-> IF path[i] = Separator THEN "/" ELSE path[i]]

\* filepath.Base
RECURSIVE StripTrailingSlashes(_)
StripTrailingSlashes(s) ==
  IF s # <<>> /\ s[Len(s)] = "/" THEN StripTrailingSlashes(SubSeq(s, 1, Len(s) - 1))
  ELSE s

Base(path) ==
  IF path = <<>> THEN <<".">>
  ELSE LET p == StripTrailingSlashes(path) IN
       IF p = <<>> THEN <<"/">>
       ELSE LET segs == Split(p) IN segs[Len(segs)]

\* isWithin with the prefix test made on the bare strings, no separator appended
isWithinBarePrefix(p, root) ==
  LET pAbs == Clean(Abs(p))
      rootAbs == Clean(Abs(root))
  IN HasPrefix(pAbs, rootAbs) \/ pAbs = rootAbs

\* isWithin (main.go)
isWithin(p, root) ==
  LET pAbs == Clean(Abs(p))
      rootAbs == Clean(Abs(root))
  IN HasPrefix(pAbs \o Sep, rootAbs \o Sep) \/ pAbs = rootAbs

(***************************************************************************)
(* net/url: the query escaping of url.Values.Encode and its inverse, the   *)
(* parsing done by r.URL.Query().Get.                                      *)
(***************************************************************************)
\* url.QueryEscape of one character
QueryEscapeChar(c) ==
  CASE c = " " -> <<"+">>
    [] c = "/" -> <<"%", "2", "F">>
    [] c = "%" -> <<"%", "2", "5">>
    [] c = "+" -> <<"%", "2", "B">>
    [] c = "=" -> <<"%", "3", "D">>
    [] c = "?" -> <<"%", "3", "F">>
    [] OTHER -> <<c>>

RECURSIVE QueryEscape(_)
QueryEscape(s) ==
  IF s = <<>> THEN <<>> ELSE QueryEscapeChar(s[1]) \o QueryEscape(Tail(s))

\* the character a %XY escape stands for
Unhex(x, y) ==
  CASE x = "2" /\ y = "F" -> "/"
    [] x = "2" /\ y = "5" -> "%"
    [] x = "2" /\ y = "B" -> "+"
    [] x = "3" /\ y = "D" -> "="
    [] x = "3" /\ y = "F" -> "?"
    [] OTHER -> "?"

RECURSIVE QueryUnescape(_)
QueryUnescape(s) ==
  IF s = <<>> THEN <<>>
  ELSE IF s[1] = "%" /\ Len(s) >= 3
    THEN <<Unhex(s[2], s[3])>> \o QueryUnescape(SubSeq(s, 4, Len(s)))
  ELSE IF s[1] = "+" THEN <<" ">> \o QueryUnescape(Tail(s))
  ELSE <<s[1]>> \o QueryUnescape(Tail(s))

\* "/?" + url.Values{"path": {v}}.Encode()
ListingURL(v) == <<"/", "?", "p", "a", "t", "h", "=">> \o QueryEscape(v)

\* r.URL.Query().Get("path") of a request for the URL u
QueryGetPath(u) ==
  IF HasPrefix(u, <<"/", "?", "p", "a", "t", "h", "=">>)
    THEN QueryUnescape(SubSeq(u, 8, Len(u)))
  ELSE <<>>

(***************************************************************************)
(* The filesystem: a function from absolute paths to nodes                 *)
(* [isDir, size, mod, readable, infoOk].  readable: the directory can be   *)
(* opened and read; infoOk: DirEntry.Info() (an lstat of the child)        *)
(* succeeds.                                                               *)
(***************************************************************************)
Node(d, sz, mt, rd, ok) ==
  [isDir |-> d, size |-> sz, mod |-> mt, readable |-> rd, infoOk |-> ok]

\* the absolute paths of the immediate children of dir
Children(fsys, dir) ==
  {p \in DOMAIN fsys : p # dir /\ Join(dir, Base(p)) = p}

\* a set of strings as the sequence sorted by StrLess (ReadDir sorts by filename)
RECURSIVE SortSet(_)
SortSet(S) ==
  IF S = {} THEN <<>>
  ELSE LET m == CHOOSE x \in S : \A y \in S \ {x} : StrLess(x, y)
       IN <<m>> \o SortSet(S \ {m})

\* os.ReadDir: the error, or the entries sorted by filename
ReadDir(fsys, name) ==
  LET p == Abs(name) IN
  IF p \notin DOMAIN fsys THEN [err |-> "ENOENT", entries |-> <<>>]
  ELSE IF ~fsys[p].isDir THEN [err |-> "ENOTDIR", entries |-> <<>>]
  ELSE IF ~fsys[p].readable THEN [err |-> "EACCES", entries |-> <<>>]
  ELSE LET kids == SortSet(Children(fsys, p))
       IN [err |-> "",
           entries |-> [i \in 1..Len(kids) |->
                          [name |-> Base(kids[i]), path |-> kids[i],
                           isDir |-> fsys[kids[i]].isDir]]]

\* os.Stat
Stat(fsys, name) ==
  LET p == Abs(name) IN
  IF p \notin DOMAIN fsys THEN [err |-> "ENOENT", isDir |-> FALSE]
  ELSE [err |-> "", isDir |-> fsys[p].isDir]

(***************************************************************************)
(* main.go                                                                 *)
(***************************************************************************)
StatusOK == 200
StatusSeeOther == 303
StatusBadRequest == 400
StatusNotFound == 404
StatusInternalServerError == 500

\* pick: the lower-cased value if it is one of the options, else the first option
pick(v, opts) ==
  IF \E i \in 1..Len(opts) : opts[i] = ToLower(v) THEN ToLower(v) ELSE opts[1]

SortName == <<"n", "a", "m", "e">>
SortSize == <<"s", "i", "z", "e">>
SortMod == <<"m", "o", "d">>
OrderAsc == <<"a", "s", "c">>
OrderDesc == <<"d", "e", "s", "c">>

\* rel of listHandler
listRel(path) ==
  LET rel == Clean(TrimPrefix(path, <<"/">>))
  IN IF rel = <<".">> THEN <<>> ELSE rel

\* rel of downloadHandler
downloadRel(path) == Clean(TrimPrefix(path, <<"/">>))

\* the rows loop giving up at the first child whose Info() fails
RECURSIVE buildRowsAbortOnError(_, _, _, _, _)
buildRowsAbortOnError(fsys, entries, rel, q, i) ==
  IF i > Len(entries) THEN <<>>
  ELSE LET e == entries[i]
           rest == buildRowsAbortOnError(fsys, entries, rel, q, i + 1)
       IN IF ~fsys[e.path].infoOk THEN <<>>
          ELSE LET row == [Name |-> e.name,
                           RelPath |-> ToSlash(Join(rel, e.name)),
                           IsDir |-> e.isDir,
                           SizeBytes |-> fsys[e.path].size,
                           ModTime |-> fsys[e.path].mod]
               IN IF q = <<>> \/ Contains(ToLower(row.Name), ToLower(q))
                    THEN <<row>> \o rest
                  ELSE rest

\* the rows loop with a case-sensitive filter
RECURSIVE buildRowsCaseSensitive(_, _, _, _, _)
buildRowsCaseSensitive(fsys, entries, rel, q, i) ==
  IF i > Len(entries) THEN <<>>
  ELSE LET e == entries[i]
           rest == buildRowsCaseSensitive(fsys, entries, rel, q, i + 1)
       IN IF ~fsys[e.path].infoOk THEN rest
          ELSE LET row == [Name |-> e.name,
                           RelPath |-> ToSlash(Join(rel, e.name)),
                           IsDir |-> e.isDir,
                           SizeBytes |-> fsys[e.path].size,
                           ModTime |-> fsys[e.path].mod]
               IN IF q = <<>> \/ Contains(row.Name, q)
                    THEN <<row>> \o rest
                  ELSE rest

\* the rows loop of listHandler over entries[i..]
RECURSIVE buildRows(_, _, _, _, _)
buildRows(fsys, entries, rel, q, i) ==
  IF i > Len(entries) THEN <<>>
  ELSE LET e == entries[i]
           rest == buildRows(fsys, entries, rel, q, i + 1)
       IN IF ~fsys[e.path].infoOk THEN rest
          ELSE LET row == [Name |-> e.name,
                           RelPath |-> ToSlash(Join(rel, e.name)),
                           IsDir |-> e.isDir,
                           SizeBytes |-> fsys[e.path].size,
                           ModTime |-> fsys[e.path].mod]
               IN IF q = <<>> \/ Contains(ToLower(row.Name), ToLower(q))
                    THEN <<row>> \o rest
                  ELSE rest

\* the closure handed to sort.Slice, on the rows a = rows[i], b = rows[j]
lessFn(a, b, sortBy, order) ==
  LET less ==
        IF sortBy = SortSize
          THEN IF a.IsDir # b.IsDir THEN a.IsDir /\ ~b.IsDir
               ELSE a.SizeBytes < b.SizeBytes
        ELSE IF sortBy = SortMod THEN a.ModTime < b.ModTime
        ELSE IF a.IsDir # b.IsDir THEN a.IsDir /\ ~b.IsDir
        ELSE StrLess(ToLower(a.Name), ToLower(b.Name))
  IN IF order = OrderDesc THEN ~less ELSE less

\* the inner loop of the insertion sort: sink rows[j] while it is less than rows[j-1]
RECURSIVE sinkRow(_, _, _, _)
sinkRow(rows, j, sortBy, order) ==
  IF j > 1 /\ lessFn(rows[j], rows[j - 1], sortBy, order)
    THEN sinkRow([rows EXCEPT ![j] = rows[j - 1], ![j - 1] = rows[j]],
                 j - 1, sortBy, order)
  ELSE rows

\* sort.Slice on a slice of at most 12 elements: an insertion sort from index i
RECURSIVE sortSlice(_, _, _, _)
sortSlice(rows, i, sortBy, order) ==
  IF i > Len(rows) THEN rows
  ELSE sortSlice(sinkRow(rows, i, sortBy, order), i + 1, sortBy, order)

\* the breadcrumb loop linking each crumb to its own segment, not the accumulated path
RECURSIVE crumbsLoopNoAccumulate(_, _, _)
crumbsLoopNoAccumulate(parts, i, acc) ==
  IF i > Len(parts) THEN <<>>
  ELSE LET p == parts[i] IN
       IF p = <<".">> \/ p = <<>> THEN crumbsLoopNoAccumulate(parts, i + 1, acc)
       ELSE <<[Name |-> p, URL |-> ListingURL(p)]>>
              \o crumbsLoopNoAccumulate(parts, i + 1, acc)

\* crumbsFor: the loop over parts[i..] with the accumulated path acc
RECURSIVE crumbsLoop(_, _, _)
crumbsLoop(parts, i, acc) ==
  IF i > Len(parts) THEN <<>>
  ELSE LET p == parts[i] IN
       IF p = <<".">> \/ p = <<>> THEN crumbsLoop(parts, i + 1, acc)
       ELSE LET acc2 == IF acc = <<>> THEN p ELSE acc \o <<"/">> \o p
            IN <<[Name |-> p, URL |-> ListingURL(acc2)]>>
                 \o crumbsLoop(parts, i + 1, acc2)

crumbsFor(rel) ==
  IF rel = <<>> THEN <<>> ELSE crumbsLoop(Split(ToSlash(rel)), 1, <<>>)

\* a response with nothing written to it
NoResp ==
  [handler |-> "none", status |-> 0, body |-> "", Rows |-> <<>>, Path |-> <<>>,
   Q |-> <<>>, Sort |-> <<>>, Order |-> <<>>, Breadcrumbs |-> <<>>,
   Location |-> <<>>, DispositionSet |-> FALSE, Filename |-> <<>>]

NoReq == [handler |-> "none", path |-> <<>>, q |-> <<>>, sort |-> <<>>, order |-> <<>>]

\* what listHandler writes, and the filesystem calls it makes
listResult(root, fsys, path, qRaw, sortRaw, orderRaw) ==
  LET q == TrimSpace(qRaw)
      sortBy == pick(sortRaw, <<SortName, SortSize, SortMod>>)
      order == pick(orderRaw, <<OrderAsc, OrderDesc>>)
      rel == listRel(path)
      abs == Join(root, rel)
      base == [NoResp EXCEPT !.handler = "list"]
  IN IF ~isWithin(abs, root)
       THEN [resp |-> [base EXCEPT !.status = StatusBadRequest,
                                   !.body = "invalid path"],
             ops |-> <<>>]
     ELSE LET rd == ReadDir(fsys, abs) IN
          IF rd.err # ""
            THEN [resp |-> [base EXCEPT !.status = StatusInternalServerError,
                                        !.body = rd.err],
                  ops |-> <<[op |-> "ReadDir", path |-> abs]>>]
          ELSE [resp |-> [base EXCEPT
                            !.status = StatusOK,
                            !.body = "index.html",
                            !.Rows = sortSlice(buildRows(fsys, rd.entries, rel, q, 1),
                                               2, sortBy, order),
                            !.Path = rel,
                            !.Q = q,
                            !.Sort = sortBy,
                            !.Order = order,
                            !.Breadcrumbs = crumbsFor(rel)],
                ops |-> <<[op |-> "ReadDir", path |-> abs]>>
                          \o [i \in 1..Len(rd.entries) |->
                                [op |-> "Info",
                                 path |-> abs \o <<"/">> \o rd.entries[i].name]]]

\* downloadHandler without the directory test: whatever was found is streamed
downloadFoundNoDirTest(rel, abs, isDir) ==
  [resp |-> [NoResp EXCEPT !.handler = "download",
                           !.status = StatusOK,
                           !.body = "file",
                           !.DispositionSet = TRUE,
                           !.Filename = Base(abs)],
   ops |-> <<[op |-> "Stat", path |-> abs], [op |-> "ServeFile", path |-> abs]>>]

\* downloadHandler once os.Stat has succeeded: redirect a directory, stream a file
downloadFound(rel, abs, isDir) ==
  LET base == [NoResp EXCEPT !.handler = "download"] IN
  IF isDir
    THEN [resp |-> [base EXCEPT !.status = StatusSeeOther,
                                !.Location = ListingURL(rel)],
          ops |-> <<[op |-> "Stat", path |-> abs]>>]
  ELSE [resp |-> [base EXCEPT !.status = StatusOK,
                              !.body = "file",
                              !.DispositionSet = TRUE,
                              !.Filename = Base(abs)],
        ops |-> <<[op |-> "Stat", path |-> abs],
                  [op |-> "ServeFile", path |-> abs]>>]

\* what downloadHandler writes, and the filesystem calls it makes
downloadResult(root, fsys, path) ==
  LET rel == downloadRel(path)
      abs == Join(root, rel)
      base == [NoResp EXCEPT !.handler = "download"]
  IN IF ~isWithin(abs, root)
       THEN [resp |-> [base EXCEPT !.status = StatusBadRequest,
                                   !.body = "invalid path"],
             ops |-> <<>>]
     ELSE LET info == Stat(fsys, abs) IN
          IF info.err # ""
            THEN [resp |-> [base EXCEPT !.status = StatusNotFound,
                                        !.body = "404 page not found"],
                  ops |-> <<[op |-> "Stat", path |-> abs]>>]
          ELSE downloadFound(rel, abs, info.isDir)

\* One request is followed from its arrival to the end of its handler: the
\* handlers share no state, so concurrent requests do not interact.
Idle == req.handler = "none"

listHandler(path, q, sortRaw, orderRaw) ==
  /\ Idle
  /\ req' = [handler |-> "list", path |-> path, q |-> q, sort |-> sortRaw,
             order |-> orderRaw]
  /\ \E r \in {listResult(rootDir, fs, path, q, sortRaw, orderRaw)} :
       resp' = r.resp /\ ops' = r.ops
  /\ UNCHANGED <<rootDir, fs>>

downloadHandler(path) ==
  /\ Idle
  /\ req' = [NoReq EXCEPT !.handler = "download", !.path = path]
  /\ \E r \in {downloadResult(rootDir, fs, path)} :
       resp' = r.resp /\ ops' = r.ops
  /\ UNCHANGED <<rootDir, fs>>

\* crumbsFor called on its own, on any relative path
crumbsCall(rel) ==
  /\ Idle
  /\ req' = [NoReq EXCEPT !.handler = "crumbs", !.path = rel]
  /\ resp' = [NoResp EXCEPT !.handler = "crumbs", !.Path = rel,
                            !.Breadcrumbs = crumbsFor(rel)]
  /\ ops' = <<>>
  /\ UNCHANGED <<rootDir, fs>>

\* the handler has returned: the request, its response and its locals are gone
handlerReturn ==
  /\ req.handler # "none"
  /\ req' = NoReq
  /\ resp' = NoResp
  /\ ops' = <<>>
  /\ UNCHANGED <<rootDir, fs>>

(***************************************************************************)
(* Inputs.                                                                 *)
(***************************************************************************)
\* all strings over chars of length at most n
StringsUpTo(chars, n) == UNION {[1..k -> chars] : k \in 0..n}

\* the user-supplied `path` values of the path specification
PathChars == {"/", ".", "a"}
Paths == StringsUpTo(PathChars, MaxPathLen)

\* ROOT_DIR: absolute, the filesystem root, and relative with a trailing separator
RootDirs == {<<"/", "a">>, <<"/">>, <<"a", "/">>}

\* the tree of the path specification:
\*   /            /a/          /a/a/a    (file)
\*   /aa/         /a/a/        /a/a/.a   (file whose lstat fails)
\*   /aa/a (file) /a/aa (file) /a/...    (directory that cannot be read)
FS0 ==
  (<<"/">> :> Node(TRUE, 4, 1, TRUE, TRUE))
  @@ (<<"/", "a">> :> Node(TRUE, 4, 1, TRUE, TRUE))
  @@ (<<"/", "a", "a">> :> Node(TRUE, 4, 2, TRUE, TRUE))
  @@ (<<"/", "a", "a", "/", "a">> :> Node(FALSE, 7, 1, TRUE, TRUE))
  @@ (<<"/", "a", "/", "a">> :> Node(TRUE, 4, 3, TRUE, TRUE))
  @@ (<<"/", "a", "/", "a", "a">> :> Node(FALSE, 2, 2, TRUE, TRUE))
  @@ (<<"/", "a", "/", ".", ".", ".">> :> Node(TRUE, 4, 1, FALSE, TRUE))
  @@ (<<"/", "a", "/", "a", "/", "a">> :> Node(FALSE, 1, 1, TRUE, TRUE))
  @@ (<<"/", "a", "/", "a", "/", ".", "a">> :> Node(FALSE, 1, 1, TRUE, FALSE))

\* the candidate children of /a in the listing specification
Pool ==
  (<<"/", "a", "/", "A", "b">> :> Node(TRUE, 4, 2, TRUE, TRUE))
  @@ (<<"/", "a", "/", "B">> :> Node(TRUE, 4, 1, TRUE, TRUE))
  @@ (<<"/", "a", "/", "a">> :> Node(FALSE, 1, 3, TRUE, TRUE))
  @@ (<<"/", "a", "/", "a", "b">> :> Node(FALSE, 5, 1, TRUE, FALSE))
  @@ (<<"/", "a", "/", "b">> :> Node(FALSE, 1, 2, TRUE, TRUE))
  @@ (<<"/", "a", "/", "b", "a">> :> Node(FALSE, 2, 3, TRUE, TRUE))
  @@ (<<"/", "a", "/", "A">> :> Node(FALSE, 9, 2, TRUE, TRUE))

\* /a with the children S
TreeWith(S) ==
  (<<"/">> :> Node(TRUE, 4, 1, TRUE, TRUE))
  @@ (<<"/", "a">> :> Node(TRUE, 4, 1, TRUE, TRUE))
  @@ [p \in S |-> Pool[p]]

ListTrees == {TreeWith(S) : S \in {T \in SUBSET DOMAIN Pool : Cardinality(T) <= MaxEntries}}

Queries == {<<>>, <<"A">>, <<"b">>, <<" ", "a", " ">>, <<"a", "B">>, <<" ">>}
SortInputs == {<<>>, SortSize, <<"M", "o", "d">>, SortName}
OrderInputs == {<<>>, OrderDesc, <<"D", "e", "s", "c">>}
ListDownloads == {<<"a">>, <<"A", "b">>, <<"b", "a">>, <<>>}

RelChars == {"/", ".", "a", "b"}
RelStrings == StringsUpTo(RelChars, MaxRelLen)

(***************************************************************************)
(* Specifications.                                                         *)
(***************************************************************************)
\* path confinement: every path against every root, on the tree FS0
Init ==
  /\ rootDir \in RootDirs
  /\ fs = FS0
  /\ req = NoReq
  /\ resp = NoResp
  /\ ops = <<>>

Next ==
  \/ Idle /\ \E path \in Paths : listHandler(path, <<>>, <<>>, <<>>)
  \/ Idle /\ \E path \in Paths : downloadHandler(path)
  \/ handlerReturn

Spec == Init /\ [][Next]_vars

\* listing: the root /a with every choice of children, filter, key and order
InitList ==
  /\ rootDir = <<"/", "a">>
  /\ fs \in ListTrees
  /\ req = NoReq
  /\ resp = NoResp
  /\ ops = <<>>

NextList ==
  \/ Idle /\ \E q \in Queries, s \in SortInputs, o \in OrderInputs :
               listHandler(<<>>, q, s, o)
  \/ Idle /\ \E path \in ListDownloads : downloadHandler(path)
  \/ handlerReturn

SpecList == InitList /\ [][NextList]_vars

\* breadcrumbs: crumbsFor on every relative path
InitCrumbs ==
  /\ rootDir = <<"/", "a">>
  /\ fs = FS0
  /\ req = NoReq
  /\ resp = NoResp
  /\ ops = <<>>

NextCrumbs ==
  \/ Idle /\ \E rel \in RelStrings : crumbsCall(rel)
  \/ Idle /\ \E rel \in RelStrings : listHandler(rel, <<>>, <<>>, <<>>)
  \/ handlerReturn

SpecCrumbs == InitCrumbs /\ [][NextCrumbs]_vars

(***************************************************************************)
(* Vocabulary of the properties: where a path leads, walked segment by     *)
(* segment from the filesystem root as the kernel resolves it.             *)
(***************************************************************************)
RECURSIVE Walk(_, _)
Walk(segs, at) ==
  IF segs = <<>> THEN at
  ELSE LET sg == Head(segs) IN
       IF sg = <<>> \/ sg = <<".">> THEN Walk(Tail(segs), at)
       ELSE IF sg = <<".", ".">>
         THEN Walk(Tail(segs), IF at = <<>> THEN at ELSE SubSeq(at, 1, Len(at) - 1))
       ELSE Walk(Tail(segs), Append(at, sg))

\* the directory names from / down to where the path p leads
Location(p) ==
  IF p # <<>> /\ p[1] = "/" THEN Walk(Split(p), <<>>)
  ELSE Walk(Split(p), Walk(Split(Cwd), <<>>))

\* the location loc is the location root or lies below it
Under(loc, root) ==
  Len(loc) >= Len(root) /\ SubSeq(loc, 1, Len(root)) = root

RECURSIVE PathOf(_)
PathOf(loc) ==
  IF loc = <<>> THEN <<>> ELSE <<"/">> \o Head(loc) \o PathOf(Tail(loc))

\* the node of fs at a location, if any
Exists(loc) == (IF loc = <<>> THEN <<"/">> ELSE PathOf(loc)) \in DOMAIN fs
NodeAt(loc) == fs[IF loc = <<>> THEN <<"/">> ELSE PathOf(loc)]

Accepted == resp.handler \in {"list", "download"} /\ resp.body # "invalid path"
Rejected ==
  /\ resp.handler \in {"list", "download"}
  /\ resp.status = StatusBadRequest
  /\ resp.body = "invalid path"
  /\ ops = <<>>

\* where the request operates: the path of its first filesystem call
Target == Location(ops[1].path)

ListedOK == resp.handler = "list" /\ resp.status = StatusOK

\* s is root-relative: no leading separator, no ".." segment
RootRelative(s) ==
  /\ s = <<>> \/ s[1] # "/"
  /\ \A i \in 1..Len(Split(s)) : Split(s)[i] # <<".", ".">>

RowAt(i) == resp.Rows[i]

\* the children of the directory at loc, and the name of a child
KidsOf(loc) == {k \in DOMAIN fs : Location(k) # loc /\ Under(Location(k), loc)
                                  /\ Len(Location(k)) = Len(loc) + 1}
NameOf(k) == Location(k)[Len(Location(k))]
\* the names listed
RowNames == {RowAt(i).Name : i \in 1..Len(resp.Rows)}

\* name contains the query, case-insensitively
Matches(name, query) ==
  \E i \in 1..(Len(name) + 1) : \E j \in (i - 1)..Len(name) :
    ToLower(SubSeq(name, i, j)) = ToLower(query)

\* segments joined by "/"
RECURSIVE JoinSlash(_)
JoinSlash(segs) ==
  IF segs = <<>> THEN <<>>
  ELSE IF Len(segs) = 1 THEN segs[1]
  ELSE segs[1] \o <<"/">> \o JoinSlash(Tail(segs))

\* a segment that counts: not empty, not "."
IsSegment(sg) == sg # <<>> /\ sg # <<".">>

\* the normalized relative path the handler derived: the echoed current path of a
\* listing, the target of a redirect, and rel itself where the response shows none
NormalizedRel ==
  IF req.handler = "list"
    THEN IF resp.status = StatusOK THEN resp.Path ELSE listRel(req.path)
  ELSE IF resp.status = StatusSeeOther THEN QueryGetPath(resp.Location)
  ELSE downloadRel(req.path)

\* the comparator of the listing shown, on two of its rows
Before(a, b) == lessFn(a, b, resp.Sort, resp.Order)

(***************************************************************************)
(* C1.  Every request is either rejected with "invalid path" without any   *)
(* filesystem call, or every directory read, stat and file streamed is at  *)
(* the root or below it, and the path the handler operates on equals the   *)
(* cleaned root or starts with root + separator; with root /a, "../aa" (a  *)
(* sibling sharing the root's name as a prefix) and "a/../.." are rejected *)
(* and "a/../a" is accepted as /a/a.                                       *)
(***************************************************************************)
C1_Confined ==
  resp.handler \in {"list", "download"} =>
    /\ Rejected \/ (ops # <<>> /\ \A i \in 1..Len(ops) :
                      /\ Under(Location(ops[i].path), Location(rootDir))
                      /\ ops[i].op # "Info" =>
                           LET a == Abs(ops[i].path) r == Clean(Abs(rootDir))
                           IN a = r \/ HasPrefix(a, r \o <<"/">>))
    /\ (rootDir = <<"/", "a">> /\ req.path = <<".", ".", "/", "a", "a">>) => Rejected
    /\ (rootDir = <<"/", "a">> /\ req.path = <<"a", "/", ".", ".", "/", ".", ".">>)
         => Rejected
    /\ (rootDir = <<"/", "a">> /\ req.path = <<"a", "/", ".", ".", "/", "a">>)
         => (ops # <<>> /\ ops[1].path = <<"/", "a", "/", "a">>)

\* "a/../a" was accepted: the directory /a/a under the root /a was read and its
\* two children were stat'ed
C1_Witness ==
  /\ rootDir = <<"/", "a">>
  /\ req.path = <<"a", "/", ".", ".", "/", "a">>
  /\ resp.handler = "list"
  /\ resp.status = StatusOK
  /\ ops = <<[op |-> "ReadDir", path |-> <<"/", "a", "/", "a">>],
              [op |-> "Info", path |-> <<"/", "a", "/", "a", "/", ".", "a">>],
              [op |-> "Info", path |-> <<"/", "a", "/", "a", "/", "a">>]>>

(***************************************************************************)
(* C2.  Under sort=name and sort=size every directory row precedes every   *)
(* file row of the listing, for order=asc and order=desc alike.            *)
(***************************************************************************)
C2_DirsFirst ==
  (ListedOK /\ resp.Sort \in {SortName, SortSize}) =>
    \A i, j \in 1..Len(resp.Rows) :
      (i < j) => ~(~RowAt(i).IsDir /\ RowAt(j).IsDir)

(***************************************************************************)
(* C3.  In every listing page the echoed current path and every row's      *)
(* RelPath are root-relative: no ".." segment and no leading separator.    *)
(***************************************************************************)
C3_RootRelative ==
  ListedOK =>
    /\ RootRelative(resp.Path)
    /\ \A i \in 1..Len(resp.Rows) : RootRelative(RowAt(i).RelPath)

(***************************************************************************)
(* C4.  A listing of a confined path that does not exist or is not a       *)
(* directory ends in NotFound; a listing of a directory that cannot be     *)
(* read ends in a server error; the two are different outcomes.            *)
(***************************************************************************)
C4_NotFoundVsUnreadable ==
  (resp.handler = "list" /\ ops # <<>>) =>
    /\ (~Exists(Target) \/ ~NodeAt(Target).isDir) => resp.status = StatusNotFound
    /\ (Exists(Target) /\ NodeAt(Target).isDir /\ ~NodeAt(Target).readable)
         => resp.status = StatusInternalServerError

(***************************************************************************)
(* C5.  A download of a confined path that is a directory streams nothing, *)
(* sets no disposition and redirects to the listing of that same path;     *)
(* a file is streamed only if the path is confined, exists and is no       *)
(* directory.                                                              *)
(***************************************************************************)
C5_DownloadDirectory ==
  resp.handler = "download" =>
    /\ (ops # <<>> /\ Exists(Target) /\ NodeAt(Target).isDir) =>
         /\ resp.status = StatusSeeOther
         /\ ~resp.DispositionSet
         /\ resp.body # "file"
         /\ \A i \in 1..Len(ops) : ops[i].op # "ServeFile"
         /\ QueryGetPath(resp.Location) = downloadRel(req.path)
         /\ LET view == listResult(rootDir, fs, QueryGetPath(resp.Location),
                                   <<>>, <<>>, <<>>)
            IN /\ view.ops # <<>>
               /\ Location(view.ops[1].path) = Target
    /\ (resp.DispositionSet \/ resp.body = "file"
          \/ \E i \in 1..Len(ops) : ops[i].op = "ServeFile") =>
         /\ Under(Target, Location(rootDir))
         /\ Exists(Target)
         /\ ~NodeAt(Target).isDir
         /\ ops[Len(ops)].path = ops[1].path

\* the download of the root itself (empty path) was redirected
C5_Witness ==
  /\ req.handler = "download"
  /\ req.path = <<>>
  /\ rootDir = <<"/", "a">>
  /\ resp.status = StatusSeeOther
  /\ resp.Location = <<"/", "?", "p", "a", "t", "h", "=", ".">>

(***************************************************************************)
(* C6.  When the directory itself was read, the listing succeeds whatever  *)
(* children fail their metadata call: the failing children are left out    *)
(* and every other child that matches the filter is listed.                *)
(***************************************************************************)
C6_SoftFail ==
  (resp.handler = "list" /\ ops # <<>> /\ Exists(Target) /\ NodeAt(Target).isDir
     /\ NodeAt(Target).readable) =>
    /\ resp.status = StatusOK
    /\ resp.body = "index.html"
    /\ \A k \in KidsOf(Target) :
         /\ ~fs[k].infoOk => NameOf(k) \notin RowNames
         /\ (fs[k].infoOk /\ Matches(NameOf(k), resp.Q)) => NameOf(k) \in RowNames

\* a listing with a failing child and a listed sibling
C6_Witness ==
  /\ ListedOK
  /\ \E k \in KidsOf(Target) : ~fs[k].infoOk
  /\ resp.Rows # <<>>

(***************************************************************************)
(* C7.  The rows of a listing are exactly the readable children whose      *)
(* lower-cased name contains the lower-cased (trimmed) query, each once;   *)
(* an empty query keeps every readable child.                              *)
(***************************************************************************)
C7_FilterExact ==
  ListedOK =>
    LET keep == {k \in KidsOf(Target) : fs[k].infoOk /\ Matches(NameOf(k), resp.Q)}
    IN /\ RowNames = {NameOf(k) : k \in keep}
       /\ Len(resp.Rows) = Cardinality(keep)
       /\ resp.Q = <<>> => Len(resp.Rows)
                             = Cardinality({k \in KidsOf(Target) : fs[k].infoOk})
       /\ (\A i \in 1..Len(req.q) : req.q[i] = " ") => resp.Q = <<>>

\* query "A" kept "Ab" and "a" and dropped "B"
C7_Witness ==
  /\ ListedOK
  /\ req.q = <<"A">>
  /\ RowNames = {<<"A", "b">>, <<"a">>}
  /\ <<"/", "a", "/", "B">> \in DOMAIN fs

(***************************************************************************)
(* C8.  The breadcrumbs of a relative path are one per non-empty, non-"."  *)
(* segment, in order; the k-th is labelled with the k-th such segment and  *)
(* navigates to the first k of them joined by "/".                         *)
(***************************************************************************)
C8_Breadcrumbs ==
  (resp.handler = "crumbs" \/ ListedOK) =>
    LET segs == SelectSeq(Split(resp.Path), IsSegment)
        b == resp.Breadcrumbs
    IN /\ Len(b) = Len(segs)
       /\ \A k \in 1..Len(b) :
            /\ b[k].Name = segs[k]
            /\ QueryGetPath(b[k].URL) = JoinSlash(SubSeq(segs, 1, k))
            /\ b[k].URL = <<"/", "?", "p", "a", "t", "h", "=">>
                            \o QueryEscape(JoinSlash(SubSeq(segs, 1, k)))
       /\ resp.Path = <<>> => b = <<>>

\* "a/b/a" gave the three breadcrumbs a, a/b, a/b/a
C8_Witness ==
  /\ resp.handler = "crumbs"
  /\ resp.Path = <<"a", "/", "b", "/", "a">>
  /\ Len(resp.Breadcrumbs) = 3
  /\ resp.Breadcrumbs[2].Name = <<"b">>
  /\ resp.Breadcrumbs[2].URL = <<"/", "?", "p", "a", "t", "h", "=", "a", "%", "2", "F", "b">>

(***************************************************************************)
(* C9.  Resolution is idempotent: the normalized relative path of an       *)
(* accepted request (the echoed current path, the redirect target),        *)
(* submitted again as `path`, is accepted and leads to the same absolute   *)
(* path.                                                                   *)
(***************************************************************************)
C9_Idempotent ==
  (Accepted /\ ops # <<>>) =>
    LET listed == listResult(rootDir, fs, NormalizedRel, <<>>, <<>>, <<>>)
        again == IF req.handler = "list" THEN listed
                 ELSE downloadResult(rootDir, fs, NormalizedRel)
    IN /\ again.ops # <<>>
       /\ again.ops[1].path = ops[1].path
       /\ again.resp.status = resp.status
       /\ listed.ops # <<>>
       /\ listed.ops[1].path = ops[1].path

\* an accepted path that is not already normalized
C9_Witness ==
  /\ Accepted
  /\ ops # <<>>
  /\ req.path = <<"/", "/", "a", "/", ".">>
  /\ NormalizedRel = <<"/", "a">>
  /\ ops[1].path = <<"/", "a", "/", "a">>

(***************************************************************************)
(* C10.  For every key and order the comparator handed to the sort is a    *)
(* strict ordering of the rows: irreflexive, asymmetric and transitive.    *)
(***************************************************************************)
C10_StrictOrder ==
  ListedOK =>
    \A i, j, k \in 1..Len(resp.Rows) :
      /\ ~Before(RowAt(i), RowAt(i))
      /\ ~(Before(RowAt(i), RowAt(j)) /\ Before(RowAt(j), RowAt(i)))
      /\ (Before(RowAt(i), RowAt(j)) /\ Before(RowAt(j), RowAt(k)))
           => Before(RowAt(i), RowAt(k))

====
